---- MODULE Spec2Model ----
(***************************************************************************)
(* A model of todo.py, the command-line task manager: the date parser,     *)
(* the Task entity, the Tasks store with its pickle file, and main().      *)
(*                                                                         *)
(* Strings are sequences of one-character strings.  A datetime is a number *)
(* of clock ticks since 0001-01-01 00:00 (ordinal 1): day ordinal times    *)
(* TicksPerDay plus the tick within the day.  One process is one run of    *)
(* main(): it parses the command line, constructs the store from the       *)
(* pickle file, performs one operation and exits.                          *)
(***************************************************************************)
EXTENDS Integers, Sequences, FiniteSets, TLC

VARIABLES now, uuids, file, tasks, pc, args, shown, msg, parsed

vars == <<now, uuids, file, tasks, pc, args, shown, msg, parsed>>

(***************************************************************************)
(* Bounds of the model.                                                    *)
(***************************************************************************)
\* clock ticks in one day (the resolution of the clock)
TicksPerDay == 2
\* the clock of the store specification runs for this many ticks
MaxTicks == 2
\* the date-parser specification starts on any of this many consecutive days
ParseDays == 8

(***************************************************************************)
(* Python values.                                                          *)
(***************************************************************************)
\* None: an absent due date or completion time
None == -1

\* the "-" that the tables print for an absent date: a column with no date in it
Dash == <<>>

Digits == <<"0", "1", "2", "3", "4", "5", "6", "7", "8", "9">>

UpperChars == <<"A", "B", "C", "D", "E", "F", "G", "H", "I", "J", "K", "L", "M",
                "N", "O", "P", "Q", "R", "S", "T", "U", "V", "W", "X", "Y", "Z">>

LowerChars == <<"a", "b", "c", "d", "e", "f", "g", "h", "i", "j", "k", "l", "m",
                "n", "o", "p", "q", "r", "s", "t", "u", "v", "w", "x", "y", "z">>

Whitespace == {" ", "\t", "\n"}

IsDigit(c) == \E i \in 1..10 : Digits[i] = c

DigitValue(c) == (CHOOSE i \in 1..10 : Digits[i] = c) - 1

\* str.lower() on one character
LowerChar(c) ==
    IF \E i \in 1..26 : UpperChars[i] = c
    THEN LowerChars[CHOOSE i \in 1..26 : UpperChars[i] = c]
    ELSE c

\* str.lower()
lower(s) == [i \in 1..Len(s) |-> LowerChar(s[i])]

RECURSIVE lstrip(_)
lstrip(s) == IF s # <<>> /\ Head(s) \in Whitespace THEN lstrip(Tail(s)) ELSE s

RECURSIVE rstrip(_)
rstrip(s) ==
    IF s # <<>> /\ s[Len(s)] \in Whitespace
    THEN rstrip(SubSeq(s, 1, Len(s) - 1))
    ELSE s

\* str.strip()
strip(s) == rstrip(lstrip(s))

\* `sub in s` on strings: s has sub as a contiguous substring
Contains(s, sub) ==
    \E i \in 0..(Len(s) - Len(sub)) : SubSeq(s, i + 1, i + Len(sub)) = sub

\* the value of a sequence of decimal digits
RECURSIVE DecimalValue(_)
DecimalValue(ds) ==
    IF ds = <<>> THEN 0
    ELSE 10 * DecimalValue(SubSeq(ds, 1, Len(ds) - 1)) + DigitValue(ds[Len(ds)])

AllDigits(s) == \A i \in 1..Len(s) : IsDigit(s[i])

\* the decimal text of a natural number, as str() and the format specs give
RECURSIVE DecimalText(_)
DecimalText(n) ==
    IF n < 10 THEN <<Digits[n + 1]>>
    ELSE DecimalText(n \div 10) \o <<Digits[(n % 10) + 1]>>

(***************************************************************************)
(* int(str): surrounding whitespace is stripped, one sign is allowed, the  *)
(* rest is decimal digits with single underscores between digits.          *)
(* IntOk says whether int() returns; otherwise it raises ValueError.       *)
(***************************************************************************)
Unsigned(s) ==
    LET t == strip(s)
    IN  IF t # <<>> /\ Head(t) \in {"+", "-"} THEN Tail(t) ELSE t

Negative(s) == LET t == strip(s) IN t # <<>> /\ Head(t) = "-"

IntOk(s) ==
    LET u == Unsigned(s)
    IN  /\ u # <<>>
        /\ \A i \in 1..Len(u) : IsDigit(u[i]) \/ u[i] = "_"
        /\ IsDigit(u[1])
        /\ IsDigit(u[Len(u)])
        /\ \A i \in 1..(Len(u) - 1) : ~(u[i] = "_" /\ u[i + 1] = "_")

IntValue(s) ==
    LET u == Unsigned(s)
        v == DecimalValue(SelectSeq(u, IsDigit))
    IN  IF Negative(s) THEN 0 - v ELSE v

(***************************************************************************)
(* The proleptic Gregorian calendar of datetime.                           *)
(***************************************************************************)
IsLeap(y) == y % 4 = 0 /\ (y % 100 # 0 \/ y % 400 = 0)

DaysInMonth(y, m) ==
    IF m = 2 THEN (IF IsLeap(y) THEN 29 ELSE 28)
    ELSE IF m \in {4, 6, 9, 11} THEN 30 ELSE 31

DaysBeforeYear(y) ==
    LET p == y - 1 IN p * 365 + (p \div 4) - (p \div 100) + (p \div 400)

RECURSIVE DaysBeforeMonth(_, _)
DaysBeforeMonth(y, m) ==
    IF m = 1 THEN 0 ELSE DaysBeforeMonth(y, m - 1) + DaysInMonth(y, m - 1)

\* date(y, m, d).toordinal()
ToOrdinal(y, m, d) == DaysBeforeYear(y) + DaysBeforeMonth(y, m) + d

\* the datetime at midnight of a day
Midnight(ordinal) == ordinal * TicksPerDay

\* datetime.date() as a day ordinal
DateOf(ts) == ts \div TicksPerDay

\* datetime.weekday(): Monday is 0
weekday(ts) == (DateOf(ts) + 6) % 7

\* dt + timedelta(days=n)
PlusDays(ts, n) == ts + n * TicksPerDay

\* datetime.max, 9999-12-31 23:59:59.999999: the last tick of the last day
DatetimeMax == Midnight(ToOrdinal(9999, 12, 31)) + TicksPerDay - 1

(***************************************************************************)
(* datetime.strptime(s, "%m/%d/%Y").  The fields are split at "/"; %m is   *)
(* 1[0-2]|0[1-9]|[1-9], %d is 3[01]|[12]\d|0[1-9]|[1-9]| [1-9], %Y is four  *)
(* digits.  StrptimeOk says whether it returns; otherwise ValueError.      *)
(***************************************************************************)
SlashPositions(s) == {i \in 1..Len(s) : s[i] = "/"}

Field(s, k) ==
    LET ps == SlashPositions(s)
        p1 == CHOOSE i \in ps : \A j \in ps : i <= j
        p2 == CHOOSE i \in ps : \A j \in ps : j <= i
    IN  IF k = 1 THEN SubSeq(s, 1, p1 - 1)
        ELSE IF k = 2 THEN SubSeq(s, p1 + 1, p2 - 1)
        ELSE SubSeq(s, p2 + 1, Len(s))

MonthFieldOk(f) ==
    /\ Len(f) \in {1, 2}
    /\ AllDigits(f)
    /\ DecimalValue(f) \in 1..12

DayFieldOk(f) ==
    \/ /\ Len(f) \in {1, 2}
       /\ AllDigits(f)
       /\ DecimalValue(f) \in 1..31
    \/ /\ Len(f) = 2
       /\ f[1] = " "
       /\ IsDigit(f[2])
       /\ DigitValue(f[2]) \in 1..9

DayFieldValue(f) == IF f[1] = " " THEN DigitValue(f[2]) ELSE DecimalValue(f)

YearFieldOk(f) == Len(f) = 4 /\ AllDigits(f)

StrptimeOk(s) ==
    /\ Cardinality(SlashPositions(s)) = 2
    /\ MonthFieldOk(Field(s, 1))
    /\ DayFieldOk(Field(s, 2))
    /\ YearFieldOk(Field(s, 3))
    /\ DecimalValue(Field(s, 3)) >= 1
    /\ DayFieldValue(Field(s, 2)) <=
           DaysInMonth(DecimalValue(Field(s, 3)), DecimalValue(Field(s, 1)))

strptime(s) ==
    Midnight(ToOrdinal(DecimalValue(Field(s, 3)),
                       DecimalValue(Field(s, 1)),
                       DayFieldValue(Field(s, 2))))

(***************************************************************************)
(* parse_due_date                                                          *)
(***************************************************************************)
weekdays ==
    << <<"m", "o", "n", "d", "a", "y">>,
       <<"t", "u", "e", "s", "d", "a", "y">>,
       <<"w", "e", "d", "n", "e", "s", "d", "a", "y">>,
       <<"t", "h", "u", "r", "s", "d", "a", "y">>,
       <<"f", "r", "i", "d", "a", "y">>,
       <<"s", "a", "t", "u", "r", "d", "a", "y">>,
       <<"s", "u", "n", "d", "a", "y">> >>

tomorrow == <<"t", "o", "m", "o", "r", "r", "o", "w">>

IsWeekdayName(s) == \E i \in 1..7 : weekdays[i] = s

\* weekdays.index(s), counted from 0
WeekdayIndex(s) == (CHOOSE i \in 1..7 : weekdays[i] = s) - 1

\* a variant without the `or 7`: the named weekday can be today
DeltaDaysSameDay(target_index, today_index) == (target_index - today_index + 7) % 7

\* (target_index - today_index + 7) % 7 or 7
DeltaDays(target_index, today_index) ==
    LET d == (target_index - today_index + 7) % 7
    IN  IF d # 0 THEN d ELSE 7

parse_due_date(due_string, today) ==
    IF due_string = <<>> THEN None
    ELSE IF StrptimeOk(due_string) THEN strptime(due_string)
    ELSE LET s == lower(strip(due_string))
         IN  IF s = tomorrow THEN PlusDays(today, 1)
             ELSE IF IsWeekdayName(s)
                  THEN PlusDays(today, DeltaDays(WeekdayIndex(s), weekday(today)))
                  ELSE None

(***************************************************************************)
(* Task                                                                    *)
(***************************************************************************)
\* uuid.uuid4().int: the identifiers a new task can get.  A behaviour draws
\* them from uuids, which is all of UuidSpace or the two of SmallUuidSpace.
UuidSpace == {12, 45, 123}

SmallUuidSpace == {12, 123}

\* Task.__init__
Task(name, priority, due_date, id, created) ==
    [name |-> name, priority |-> priority, id |-> id, created |-> created,
     due_date |-> due_date, completed |-> None]

\* a variant that leaves the task open
mark_completed_never(t, when) == t

\* a variant that reopens a task that is already completed
mark_completed_toggle(t, when) ==
    [t EXCEPT !.completed = IF t.completed # None THEN None ELSE when]

\* Task.mark_completed
mark_completed(t, when) == [t EXCEPT !.completed = when]

\* Task.is_done
is_done(t) == t.completed # None

(***************************************************************************)
(* list.sort and sorted(): a stable sort by a key of two numbers, compared *)
(* as Python compares tuples.                                              *)
(***************************************************************************)
KeyLess(a, b) == a[1] < b[1] \/ (a[1] = b[1] /\ a[2] < b[2])

\* x goes before the first element whose key is greater than x's
RECURSIVE Insert(_, _)
Insert(sorted, x) ==
    IF sorted = <<>> THEN <<x>>
    ELSE IF KeyLess(x[1], Head(sorted)[1]) THEN <<x>> \o sorted
    ELSE <<Head(sorted)>> \o Insert(Tail(sorted), x)

RECURSIVE SortKeyed(_)
SortKeyed(pairs) ==
    IF pairs = <<>> THEN <<>>
    ELSE Insert(SortKeyed(SubSeq(pairs, 1, Len(pairs) - 1)), pairs[Len(pairs)])

\* the elements of a sorted sequence of <<key, element>> pairs
Unkey(pairs) == [i \in 1..Len(pairs) |-> pairs[i][2]]

\* key=lambda t: t.created
CreatedKey(t) == <<t.created, 0>>

\* key=lambda t: (t.due_date or datetime.max, -t.priority)
DueKey(t) ==
    <<IF t.due_date # None THEN t.due_date ELSE DatetimeMax, 0 - t.priority>>

\* self.tasks.sort(key=lambda t: t.created)
SortByCreated(ts) ==
    Unkey(SortKeyed([i \in 1..Len(ts) |-> <<CreatedKey(ts[i]), ts[i]>>]))

\* sort by key=lambda t: (t.due_date or datetime.max, -t.priority)
SortByDue(ts) ==
    Unkey(SortKeyed([i \in 1..Len(ts) |-> <<DueKey(ts[i]), ts[i]>>]))

(***************************************************************************)
(* The pickle file: pickle.dump writes every field of every task, in list  *)
(* order; pickle.load rebuilds the Task objects.                           *)
(***************************************************************************)
\* a variant that does not write the completion time
PickleTaskNoCompleted(t) == <<t.id, t.name, t.priority, t.created, t.due_date, None>>

PickleTask(t) == <<t.id, t.name, t.priority, t.created, t.due_date, t.completed>>

UnpickleTask(b) ==
    [name |-> b[2], priority |-> b[3], id |-> b[1], created |-> b[4],
     due_date |-> b[5], completed |-> b[6]]

pickle_dump(ts) == [i \in 1..Len(ts) |-> PickleTask(ts[i])]

pickle_load(blob) == [i \in 1..Len(blob) |-> UnpickleTask(blob[i])]

NoFile == [exists |-> FALSE, blob |-> <<>>]

\* Tasks.pickle_tasks: the file after it
pickle_tasks(ts) == [exists |-> TRUE, blob |-> pickle_dump(ts)]

\* Tasks.__init__: the list a new store holds
TasksInit(f) ==
    SortByCreated(IF f.exists THEN pickle_load(f.blob) ELSE <<>>)

(***************************************************************************)
(* The tables.  strftime("%m/%d/%Y") keeps the calendar day and drops the  *)
(* time of day; "%Y-%m-%d %H:%M" keeps the day and the time of day.        *)
(***************************************************************************)
\* age_in_days: (datetime.now() - created).days
age_in_days(created, today) == (today - created) \div TicksPerDay

FormatDate(ts) == <<DateOf(ts)>>

FormatMinute(ts) == <<DateOf(ts), ts % TicksPerDay>>

ListRow(t, today) ==
    [id |-> t.id,
     age |-> age_in_days(t.created, today),
     due |-> IF t.due_date # None THEN FormatDate(t.due_date) ELSE Dash,
     priority |-> t.priority,
     name |-> t.name]

ReportRow(t, today) ==
    [id |-> t.id,
     age |-> age_in_days(t.created, today),
     due |-> IF t.due_date # None THEN FormatDate(t.due_date) ELSE Dash,
     priority |-> t.priority,
     name |-> t.name,
     created |-> FormatMinute(t.created),
     completed |-> IF t.completed # None THEN FormatMinute(t.completed) ELSE Dash]

NotDone(t) == ~is_done(t)

\* Tasks.list: the rows printed
ListRows(ts, today) ==
    LET active_tasks == SortByDue(SelectSeq(ts, NotDone))
    IN  [i \in 1..Len(active_tasks) |-> ListRow(active_tasks[i], today)]

\* Tasks.report: the rows printed
ReportRows(ts, today) ==
    LET all_tasks == SortByDue(ts)
    IN  [i \in 1..Len(all_tasks) |-> ReportRow(all_tasks[i], today)]

\* any(term.lower() in t.name.lower() for term in terms)
MatchesAny(name, terms) ==
    \E k \in 1..Len(terms) : Contains(lower(name), lower(terms[k]))

\* a variant that compares the letters as written
QueryRowsCaseSensitive(ts, terms, today) ==
    LET Match(t) == ~is_done(t) /\ \E k \in 1..Len(terms) : Contains(t.name, terms[k])
        matches == SortByDue(SelectSeq(ts, Match))
    IN  [i \in 1..Len(matches) |-> ListRow(matches[i], today)]

\* Tasks.query: the rows printed
QueryRows(ts, terms, today) ==
    LET Match(t) == ~is_done(t) /\ MatchesAny(t.name, terms)
        matches == SortByDue(SelectSeq(ts, Match))
    IN  [i \in 1..Len(matches) |-> ListRow(matches[i], today)]

(***************************************************************************)
(* The command lines.  An option that is not given is None in Python and   *)
(* the empty string here: main() and add() read only its truth value.      *)
(***************************************************************************)
NoArgs ==
    [add |-> <<>>, due |-> <<>>, priority |-> 1, list |-> FALSE,
     report |-> FALSE, done |-> <<>>, delete |-> <<>>, query |-> <<>>]

Milk == <<"M", "i", "l", "k">>

mail == <<"m", "a", "i", "l">>

Tomorrow == <<"T", "o", "m", "o", "r", "r", "o", "w">>

\* the day after the first day of the clock, written MM/DD/YYYY
Jan7 == <<"0", "1", "/", "0", "7", "/", "2", "0", "2", "5">>

Friday == <<" ", "F", "r", "i", "d", "a", "y", " ">>

soon == <<"s", "o", "o", "n">>

AddCommands ==
    { [NoArgs EXCEPT !.add = Milk, !.due = tomorrow, !.priority = 1],
      [NoArgs EXCEPT !.add = mail, !.due = Tomorrow, !.priority = 3],
      [NoArgs EXCEPT !.add = Milk, !.priority = 2] }

\* the add commands of the sorting specification: every form of due string
SortAddCommands ==
    { [NoArgs EXCEPT !.add = Milk, !.due = tomorrow, !.priority = 1],
      [NoArgs EXCEPT !.add = mail, !.due = Tomorrow, !.priority = 3],
      [NoArgs EXCEPT !.add = Milk, !.due = Jan7, !.priority = 2],
      [NoArgs EXCEPT !.add = mail, !.priority = 1],
      [NoArgs EXCEPT !.add = Milk, !.due = Friday, !.priority = 3],
      [NoArgs EXCEPT !.add = mail, !.due = soon, !.priority = 2] }

\* the id arguments: the decimal text of every identifier, a prefix of one
\* that is the text of none, and a text that is no number
IdArguments ==
    {DecimalText(id) : id \in UuidSpace} \cup { <<"1">>, <<"a", "b", "c">> }

\* the lists of search terms; the last holds the empty string alone
QueryArguments ==
    { << <<"m", "i">> >>,
      << <<"x">>, <<"I", "L">> >>,
      << <<"x">> >>,
      << <<>> >> }

CommandLines ==
    AddCommands
        \cup { [NoArgs EXCEPT !.list = TRUE], [NoArgs EXCEPT !.report = TRUE], NoArgs }
        \cup { [NoArgs EXCEPT !.done = a] : a \in IdArguments }
        \cup { [NoArgs EXCEPT !.delete = a] : a \in IdArguments }
        \cup { [NoArgs EXCEPT !.query = q] : q \in QueryArguments }

SortCommandLines ==
    SortAddCommands
        \cup { [NoArgs EXCEPT !.list = TRUE], [NoArgs EXCEPT !.report = TRUE] }
        \cup { [NoArgs EXCEPT !.query = q] : q \in QueryArguments }

NoMsg == [text |-> "", id |-> None]

(***************************************************************************)
(* The state before the first run: no pickle file, no process.             *)
(***************************************************************************)
StartOfClock == Midnight(ToOrdinal(2025, 1, 6))

NotParsed == [due |-> <<>>, today |-> None, date |-> None]

NoRunYet ==
    /\ file = NoFile
    /\ tasks = <<>>
    /\ pc = "shell"
    /\ args = NoArgs
    /\ shown = <<>>
    /\ msg = NoMsg
    /\ parsed = NotParsed

Init ==
    /\ now = StartOfClock
    /\ uuids = SmallUuidSpace
    /\ NoRunYet

\* time passes
Tick ==
    /\ now < StartOfClock + MaxTicks
    /\ now' = now + 1
    /\ UNCHANGED <<uuids, file, tasks, pc, args, shown, msg, parsed>>

(***************************************************************************)
(* The operations of the store.  self is the list the store holds when the *)
(* operation is called; tasks' is the list it holds afterwards.            *)
(***************************************************************************)
Ids(ts) == {ts[i].id : i \in 1..Len(ts)}

\* a variant whose new identifier can be one the store already holds
add_any_uuid(self, name, due, priority) ==
    \E id \in uuids :
        LET due_date == IF due # <<>> THEN parse_due_date(due, now) ELSE None
            task == Task(name, priority, due_date, id, now)
        IN  /\ tasks' = Append(self, task)
            /\ file' = pickle_tasks(tasks')
            /\ msg' = [text |-> "Created task", id |-> task.id]
            /\ shown' = <<>>

\* Tasks.add
add(self, name, due, priority) ==
    \E id \in uuids \ Ids(self) :
        LET due_date == IF due # <<>> THEN parse_due_date(due, now) ELSE None
            task == Task(name, priority, due_date, id, now)
        IN  /\ tasks' = Append(self, task)
            /\ file' = pickle_tasks(tasks')
            /\ msg' = [text |-> "Created task", id |-> task.id]
            /\ shown' = <<>>

\* a variant that sorts the store's own list
list_sorts_store(self) ==
    /\ shown' = ListRows(self, now)
    /\ tasks' = SortByDue(self)
    /\ msg' = NoMsg
    /\ UNCHANGED file

\* Tasks.list
list(self) ==
    /\ shown' = ListRows(self, now)
    /\ tasks' = self
    /\ msg' = NoMsg
    /\ UNCHANGED file

\* Tasks.report
report(self) ==
    /\ shown' = ReportRows(self, now)
    /\ tasks' = self
    /\ msg' = NoMsg
    /\ UNCHANGED file

\* next((t for t in self.tasks if t.id == task_id), None): its index, 0 for None
FirstWithId(ts, task_id) ==
    IF \E i \in 1..Len(ts) : ts[i].id = task_id
    THEN CHOOSE i \in 1..Len(ts) :
             /\ ts[i].id = task_id
             /\ \A j \in 1..(i - 1) : ts[j].id # task_id
    ELSE 0

\* Tasks.done, after int(task_id) has returned
done(self, task_id) ==
    LET i == FirstWithId(self, task_id)
    IN  /\ IF i # 0
           THEN /\ tasks' = [self EXCEPT ![i] = mark_completed(self[i], now)]
                /\ file' = pickle_tasks(tasks')
                /\ msg' = [text |-> "Completed task", id |-> self[i].id]
           ELSE /\ tasks' = self
                /\ file' = file
                /\ msg' = [text |-> "Task not found.", id |-> None]
        /\ shown' = <<>>

\* a variant that does not write the pickle file
delete_unsaved(self, task_id) ==
    LET Other(t) == ~(t.id = task_id)
        kept == SelectSeq(self, Other)
    IN  /\ tasks' = kept
        /\ file' = file
        /\ msg' = IF Len(kept) < Len(self)
                   THEN [text |-> "Deleted task", id |-> task_id]
                   ELSE [text |-> "Task not found.", id |-> None]
        /\ shown' = <<>>

\* Tasks.delete, after int(task_id) has returned
delete(self, task_id) ==
    LET Other(t) == ~(t.id = task_id)
        kept == SelectSeq(self, Other)
    IN  /\ tasks' = kept
        /\ IF Len(kept) < Len(self)
           THEN /\ file' = pickle_tasks(kept)
                /\ msg' = [text |-> "Deleted task", id |-> task_id]
           ELSE /\ file' = file
                /\ msg' = [text |-> "Task not found.", id |-> None]
        /\ shown' = <<>>

\* Tasks.query
query(self, terms) ==
    /\ shown' = QueryRows(self, terms, now)
    /\ tasks' = self
    /\ msg' = NoMsg
    /\ UNCHANGED file

\* int(task_id) raises ValueError: nothing catches it, the process dies with
\* a traceback, holding the list it loaded
ValueError(self) ==
    /\ pc' = "crashed"
    /\ msg' = [text |-> "ValueError", id |-> None]
    /\ tasks' = self
    /\ shown' = <<>>
    /\ UNCHANGED file

(***************************************************************************)
(* main(): one run of the program with the command line a.  It constructs  *)
(* the store from the pickle file (self, the list Tasks.__init__ leaves),  *)
(* takes the first branch whose option is given, and exits.                *)
(***************************************************************************)
Branch(a) ==
    IF a.add # <<>> THEN "add"
    ELSE IF a.list THEN "list"
    ELSE IF a.report THEN "report"
    ELSE IF a.done # <<>> THEN "done"
    ELSE IF a.delete # <<>> THEN "delete"
    ELSE IF a.query # <<>> THEN "query"
    ELSE "help"

MainAdd(a) ==
    /\ Branch(a) = "add"
    /\ \E self \in {TasksInit(file)} : add(self, a.add, a.due, a.priority)
    /\ pc' = "exited"
    /\ args' = a
    /\ UNCHANGED <<now, uuids, parsed>>

MainList(a) ==
    /\ Branch(a) = "list"
    /\ \E self \in {TasksInit(file)} : list(self)
    /\ pc' = "exited"
    /\ args' = a
    /\ UNCHANGED <<now, uuids, parsed>>

MainReport(a) ==
    /\ Branch(a) = "report"
    /\ \E self \in {TasksInit(file)} : report(self)
    /\ pc' = "exited"
    /\ args' = a
    /\ UNCHANGED <<now, uuids, parsed>>

MainDone(a) ==
    /\ Branch(a) = "done"
    /\ \E self \in {TasksInit(file)} :
           IF IntOk(a.done)
           THEN done(self, IntValue(a.done)) /\ pc' = "exited"
           ELSE ValueError(self)
    /\ args' = a
    /\ UNCHANGED <<now, uuids, parsed>>

MainDelete(a) ==
    /\ Branch(a) = "delete"
    /\ \E self \in {TasksInit(file)} :
           IF IntOk(a.delete)
           THEN delete(self, IntValue(a.delete)) /\ pc' = "exited"
           ELSE ValueError(self)
    /\ args' = a
    /\ UNCHANGED <<now, uuids, parsed>>

MainQuery(a) ==
    /\ Branch(a) = "query"
    /\ \E self \in {TasksInit(file)} : query(self, a.query)
    /\ pc' = "exited"
    /\ args' = a
    /\ UNCHANGED <<now, uuids, parsed>>

\* parser.print_help()
MainHelp(a) ==
    /\ Branch(a) = "help"
    /\ tasks' = TasksInit(file)
    /\ msg' = [text |-> "usage", id |-> None]
    /\ shown' = <<>>
    /\ pc' = "exited"
    /\ args' = a
    /\ UNCHANGED <<now, uuids, file, parsed>>

Next ==
    \/ Tick
    \/ \E a \in CommandLines : MainAdd(a)
    \/ \E a \in CommandLines : MainList(a)
    \/ \E a \in CommandLines : MainReport(a)
    \/ \E a \in CommandLines : MainDone(a)
    \/ \E a \in CommandLines : MainDelete(a)
    \/ \E a \in CommandLines : MainQuery(a)
    \/ \E a \in CommandLines : MainHelp(a)

Spec == Init /\ [][Next]_vars

(***************************************************************************)
(* The sorting specification: stores built by add alone, with every form   *)
(* of due string, and shown by list, report and query.                     *)
(***************************************************************************)
NextSort ==
    \/ Tick
    \/ \E a \in SortCommandLines : MainAdd(a)
    \/ \E a \in SortCommandLines : MainList(a)
    \/ \E a \in SortCommandLines : MainReport(a)
    \/ \E a \in SortCommandLines : MainQuery(a)

SpecSort == Init /\ [][NextSort]_vars

(***************************************************************************)
(* The deleting specification: stores of up to three tasks, with add,      *)
(* done, delete, list and report.                                          *)
(***************************************************************************)
DeleteCommandLines ==
    { [NoArgs EXCEPT !.add = Milk, !.due = tomorrow, !.priority = 1],
      [NoArgs EXCEPT !.list = TRUE], [NoArgs EXCEPT !.report = TRUE] }
        \cup { [NoArgs EXCEPT !.done = DecimalText(id)] : id \in UuidSpace }
        \cup { [NoArgs EXCEPT !.delete = a] : a \in IdArguments }

InitDelete ==
    /\ now = StartOfClock
    /\ uuids = UuidSpace
    /\ NoRunYet

NextDelete ==
    \/ Tick
    \/ \E a \in DeleteCommandLines : MainAdd(a)
    \/ \E a \in DeleteCommandLines : MainList(a)
    \/ \E a \in DeleteCommandLines : MainReport(a)
    \/ \E a \in DeleteCommandLines : MainDone(a)
    \/ \E a \in DeleteCommandLines : MainDelete(a)

SpecDelete == InitDelete /\ [][NextDelete]_vars

(***************************************************************************)
(* The date-parser specification: parse_due_date applied to a due string   *)
(* on any tick of ParseDays consecutive days.                              *)
(***************************************************************************)
UpperChar(c) ==
    IF \E i \in 1..26 : LowerChars[i] = c
    THEN UpperChars[CHOOSE i \in 1..26 : LowerChars[i] = c]
    ELSE c

\* the ways weekday number i (Monday is 1) is written in the due strings
WeekdaySpellings(i) ==
    LET w == weekdays[i]
    IN  { w,
          [k \in 1..Len(w) |-> UpperChar(w[k])],
          <<" ", UpperChar(w[1])>> \o Tail(w) \o <<"\t">>,
          <<"\n">> \o w }

Feb30 == <<"0", "2", "/", "3", "0", "/", "2", "0", "2", "5">>

Jan5Short == <<"1", "/", " ", "5", "/", "2", "0", "2", "5">>

fri == <<"f", "r", "i">>

DueStrings ==
    UNION {WeekdaySpellings(i) : i \in 1..7}
        \cup {tomorrow, Tomorrow, <<" ">> \o tomorrow, Jan7, <<" ">> \o Jan7,
              Feb30, Jan5Short, soon, fri, <<>>}

InitParse ==
    /\ now \in StartOfClock..(StartOfClock + ParseDays * TicksPerDay - 1)
    /\ uuids = SmallUuidSpace
    /\ NoRunYet

ParseDueDate(s) ==
    /\ parsed' = [due |-> s, today |-> now, date |-> parse_due_date(s, now)]
    /\ UNCHANGED <<now, uuids, file, tasks, pc, args, shown, msg>>

NextParse == \E s \in DueStrings : ParseDueDate(s)

SpecParse == InitParse /\ [][NextParse]_vars

(***************************************************************************)
(* The properties.                                                         *)
(***************************************************************************)
RowIds(rows) == {rows[i].id : i \in 1..Len(rows)}

\* how many rows show the task id
Shows(rows, id) == Cardinality({i \in 1..Len(rows) : rows[i].id = id})

\* the task with this id in a list that holds it
TaskOf(ts, id) == ts[CHOOSE i \in 1..Len(ts) : ts[i].id = id]

\* the last run took this branch of main() and ended
Ran(branch) == pc # "shell" /\ Branch(args) = branch

\* the step is a run of main() that takes this branch: a run records its
\* command line in args
Did(branch) ==
    /\ Branch(args') = branch
    /\ \/ branch = "add" /\ MainAdd(args')
       \/ branch = "list" /\ MainList(args')
       \/ branch = "report" /\ MainReport(args')
       \/ branch = "done" /\ MainDone(args')
       \/ branch = "delete" /\ MainDelete(args')
       \/ branch = "query" /\ MainQuery(args')

\* C1: a done(id) with an id of the store leaves the task out of the rows of
\* list() and in the rows of report(), with a completion time and not "-";
\* the same is so for the store a new process loads from the pickle file.
C1_DoneHidesFromListKeepsInReport ==
    [][(/\ Did("done")
        /\ IntOk(args'.done)
        /\ IntValue(args'.done) \in Ids(TasksInit(file)))
          => \A store \in {tasks', TasksInit(file')} :
                 LET id == IntValue(args'.done)
                     rows == ReportRows(store, now')
                 IN  /\ id \notin RowIds(ListRows(store, now'))
                     /\ \E i \in 1..Len(rows) :
                            rows[i].id = id /\ rows[i].completed # Dash]_vars

\* a done has completed one of two tasks, the other is still open
C1_Witness ==
    /\ Ran("done")
    /\ msg.text = "Completed task"
    /\ Len(tasks) = 2
    /\ \E i \in 1..2 : tasks[i].completed = None

\* C2: a delete(id) with an id of the store removes that one task and keeps
\* the others as they were and in their order, so no row of list() or
\* report() shows the id, also after a reload; with an id of no task the
\* list, the file and its reload stay as they were and the message is
\* "Task not found.".  The id is one for which int() returns.
C2_DeleteRemovesOnlyThatTask ==
    [][(Did("delete") /\ IntOk(args'.delete))
          => LET id == IntValue(args'.delete)
                 before == TasksInit(file)
             IN  IF id \in Ids(before)
                 THEN /\ \E k \in 1..Len(before) :
                            /\ before[k].id = id
                            /\ tasks' = SubSeq(before, 1, k - 1)
                                            \o SubSeq(before, k + 1, Len(before))
                      /\ \A store \in {tasks', TasksInit(file')} :
                            /\ id \notin RowIds(ListRows(store, now'))
                            /\ id \notin RowIds(ReportRows(store, now'))
                      /\ TasksInit(file') = tasks'
                      /\ msg'.text = "Deleted task"
                 ELSE /\ tasks' = before
                      /\ file' = file
                      /\ msg'.text = "Task not found."]_vars

\* a delete has removed one of three tasks
C2_Witness ==
    /\ Ran("delete")
    /\ msg.text = "Deleted task"
    /\ Len(tasks) = 2
    /\ tasks[1].completed # None

\* the order the tables are to have: by the calendar day of the due date,
\* the rows with no due date last, and on one day the higher priority first
RowsInOrder(r1, r2) ==
    IF r1.due = Dash THEN r2.due = Dash
    ELSE \/ r2.due = Dash
         \/ r1.due[1] < r2.due[1]
         \/ r1.due[1] = r2.due[1] /\ r1.priority >= r2.priority

\* C3: the rows of list(), report() and query() are in ascending order of
\* due date, the rows without a due date after all the others, and two rows
\* with the same due date in descending order of priority.
C3_TablesSortedByDueDateThenPriority ==
    (Ran("list") \/ Ran("report") \/ Ran("query"))
        => \A i \in 1..Len(shown) : \A j \in (i + 1)..Len(shown) :
               RowsInOrder(shown[i], shown[j])

\* C4: for a weekday name in any spelling and any today, parse_due_date
\* gives a date 1 to 7 days after today that falls on the named weekday, and
\* 7 days after today when today is that weekday.
C4_WeekdayIsNextOccurrence ==
    \A i \in 1..7 :
        parsed.due \in WeekdaySpellings(i)
            => /\ parsed.date # None
               /\ LET ahead == DateOf(parsed.date) - DateOf(parsed.today)
                  IN  /\ ahead \in 1..7
                      /\ weekday(parsed.date) = i - 1
                      /\ weekday(parsed.today) = i - 1 => ahead = 7

\* " Friday\t" parsed on a Friday
C4_Witness ==
    /\ parsed.due \in WeekdaySpellings(5) \ {weekdays[5]}
    /\ weekday(parsed.today) = 4
    /\ DateOf(parsed.date) = DateOf(parsed.today) + 7

\* C5: after an add, a done that found its task or a delete that found its
\* task, the store a new process loads from the pickle file is the list the
\* process held: the same tasks in the same order with the same fields.
C5_ReloadGivesTheSameStore ==
    (/\ pc = "exited"
     /\ Branch(args) \in {"add", "done", "delete"}
     /\ msg.text \in {"Created task", "Completed task", "Deleted task"})
        => TasksInit(file) = tasks

\* a done has written a store of two tasks, one with no due date
C5_Witness ==
    /\ Ran("done")
    /\ msg.text = "Completed task"
    /\ Len(tasks) = 2
    /\ \E i \in 1..2 : tasks[i].due_date = None
    /\ \E i \in 1..2 : tasks[i].due_date # None

\* C6: a done or delete whose argument is the id of no task says
\* "Task not found." and the process exits normally, with the store and the
\* file as they were.
C6_LookupMissIsReported ==
    ((Ran("done") \/ Ran("delete"))
        /\ msg.text \notin {"Completed task", "Deleted task"})
        => /\ pc = "exited"
           /\ msg.text = "Task not found."
           /\ TasksInit(file) = tasks

\* the two letters are the same but for their case
SameLetter(c, d) ==
    c = d \/ \E k \in 1..26 : {c, d} = {UpperChars[k], LowerChars[k]}

\* s holds sub as a substring, the case of the letters set aside
HoldsIgnoringCase(s, sub) ==
    \E at \in 0..(Len(s) - Len(sub)) :
        \A k \in 1..Len(sub) : SameLetter(s[at + k], sub[k])

\* C7: the rows of query(terms) show, once each, the tasks that are open and
\* whose name holds one of the terms, the case of the letters set aside, and
\* no other task.
C7_QueryShowsOpenMatchingTasks ==
    Ran("query")
        => /\ RowIds(shown) =
                  {tasks[i].id : i \in
                      {k \in 1..Len(tasks) :
                          /\ tasks[k].completed = None
                          /\ \E n \in 1..Len(args.query) :
                                 HoldsIgnoringCase(tasks[k].name, args.query[n])}}
           /\ \A id \in RowIds(shown) : Shows(shown, id) = 1

\* the query for "mi" shows one of two open tasks
C7_Witness ==
    /\ Ran("query")
    /\ args.query = << <<"m", "i">> >>
    /\ Len(tasks) = 2
    /\ \A i \in 1..2 : tasks[i].completed = None
    /\ Len(shown) = 1
    /\ shown[1].name = Milk

\* every task of old that is completed and is in new is completed in new, at
\* no earlier time
StaysCompleted(old, new) ==
    \A i \in 1..Len(old) : \A j \in 1..Len(new) :
        (old[i].id = new[j].id /\ old[i].completed # None)
            => new[j].completed # None /\ new[j].completed >= old[i].completed

\* C8: in every step that changes the file or the list, a task that is
\* completed and stays in the store stays completed, in the store loaded from
\* the file and in the list the process holds, and its completion time does
\* not go back; a done, also of a completed task, sets the completion time
\* to the time of that done.
C8_CompletedStaysCompleted ==
    [][/\ (file' # file \/ tasks' # tasks)
           => \A old \in {TasksInit(file)} : \A new \in {TasksInit(file')} :
                  StaysCompleted(old, new) /\ StaysCompleted(old, tasks')
       /\ (/\ Did("done")
           /\ IntOk(args'.done)
           /\ IntValue(args'.done) \in Ids(TasksInit(file)))
              => TaskOf(TasksInit(file'), IntValue(args'.done)).completed = now]_vars

\* a done at a later tick than the creation of its task, in a store whose
\* other task is completed as well
C8_Witness ==
    /\ Ran("done")
    /\ msg.text = "Completed task"
    /\ Len(tasks) = 2
    /\ \A i \in 1..2 : tasks[i].completed # None
    /\ TaskOf(tasks, msg.id).completed > TaskOf(tasks, msg.id).created

\* C9: after an add, the rows of a following list() show the new task once,
\* with the name and the priority given, and show once every task that was
\* open before; the new id is the id of no task the store held.
C9_AddShowsNewTaskOnce ==
    [][Did("add")
          => LET before == TasksInit(file)
                 rows == ListRows(TasksInit(file'), now')
                 id == msg'.id
             IN  /\ id \notin Ids(before)
                 /\ Shows(rows, id) = 1
                 /\ \A i \in 1..Len(rows) :
                        rows[i].id = id
                            => /\ rows[i].name = args'.add
                               /\ rows[i].priority = args'.priority
                 /\ \A k \in 1..Len(before) :
                        before[k].completed = None
                            => Shows(rows, before[k].id) = 1]_vars

\* an add has made a second task, the first still open
C9_Witness ==
    /\ Ran("add")
    /\ Len(tasks) = 2
    /\ tasks[1].completed = None
    /\ tasks[2].priority = 3

\* every task of old that is in new has the name, priority, created and
\* due_date it had
KeepsFields(old, new) ==
    \A i \in 1..Len(old) : \A j \in 1..Len(new) :
        old[i].id = new[j].id
            => /\ new[j].name = old[i].name
               /\ new[j].priority = old[i].priority
               /\ new[j].created = old[i].created
               /\ new[j].due_date = old[i].due_date

\* C10: list(), report() and query() leave the list the store holds and the
\* pickle file as they were; and in every step that changes the file or the
\* list, a task that stays in the store keeps its id, name, priority,
\* created and due_date.
C10_TablesChangeNothing ==
    [][/\ (Did("list") \/ Did("report") \/ Did("query"))
           => tasks' = TasksInit(file) /\ file' = file
       /\ (file' # file \/ tasks' # tasks)
           => \A old \in {TasksInit(file)} : \A new \in {TasksInit(file')} :
                  KeepsFields(old, new) /\ KeepsFields(old, tasks')]_vars

\* a list() of a store whose order of creation is not its order of due date
C10_Witness ==
    /\ Ran("list")
    /\ Len(shown) = 2
    /\ shown[1].id = tasks[2].id

====
